---- MODULE Spec2Model ----
(***************************************************************************)
(* Model of the JNI bridge native-lib.cpp of audx-android: the session     *)
(* lifecycle (createNative / destroyNative), the per-frame orchestrator     *)
(* (processNative) and the statistics entry points (getStatsNative /        *)
(* resetStatsNative).                                                       *)
(*                                                                          *)
(* Every handler is one action.  A handler first builds the ordered list    *)
(* of the calls it makes on its collaborators (operator new/delete, the     *)
(* denoising engine, the resampling converters, malloc/free, the JNI        *)
(* array and string functions); the heap and the statistics after the       *)
(* call are computed from that list, and the list itself is kept in         *)
(* `last` so that ordering and exactly-once properties can be stated.       *)
(*                                                                          *)
(* The denoising engine, the converters and get_frame_samples are not part  *)
(* of native-lib.cpp; their effect is modelled from their interface         *)
(* contract (EngineInitStats, RecordFrame, Snapshot, get_frame_samples).    *)
(*                                                                          *)
(* native-lib.cpp has no global or static variable: a handler reaches only  *)
(* the objects behind the handle it is given, so sessions do not interact   *)
(* and the model follows one session at a time.  A new session is created   *)
(* once the previous one is gone, at the address the allocator hands out    *)
(* again; any number of sessions follow one another.                        *)
(*                                                                          *)
(* Caller contract: process / getStats / resetStats are invoked with the    *)
(* null handle or with a live handle.  destroy is invoked with the null     *)
(* handle, a live handle, or a handle that was already destroyed; reading   *)
(* the freed NativeHandle is undefined behaviour and is modelled as a       *)
(* choice between a crash and every combination of the stale pointers       *)
(* still being readable or reading as null.                                 *)
(***************************************************************************)
EXTENDS Integers, Sequences, FiniteSets, TLC

\* ------------------------------------------------------------------ bounds
MaxFrames == 2          \* frames the engine records between two resets
VadScale == 2           \* a VAD probability is v / VadScale, v \in 0..VadScale
MaxStaleDestroys == 1   \* destroyNative calls on one already-destroyed handle

\* --------------------------------------------------------------- constants
AUDX_SUCCESS == 0
AUDX_ERROR == -1
AUDX_DEFAULT_SAMPLE_RATE == 48000
AUDX_DEFAULT_FRAME_SIZE == 480
NULL == 0

Ids == {1}
Rates == {16000, 48000}  \* one rate that needs resampling, and the native rate
Qualities == {4}
Kinds == {"denoiser", "engine", "ctx", "up", "down", "handle"}
VadValues == 0..VadScale
Latencies == {2}
RetCodes == {AUDX_SUCCESS, AUDX_ERROR}

VARIABLES
    allocs,       \* allocs[kind][id]: times the object at id was constructed
    frees,        \* frees[kind][id]: times the object at id was released
    handleRec,    \* contents of the NativeHandle at each address
    ctxRec,       \* contents of the ResamplerContext at each address
    den,          \* statistics fields of the Denoiser at each address
    okCalls,      \* successful processNative calls since creation / last reset
    okSpeech,     \* ... of which the result had is_speech
    scratch,      \* scratch buffers allocated and not yet freed
    carried,      \* collaborators whose internal state has moved on since
                  \* they were constructed (filter history, VAD smoothing)
    crashed,      \* the process died in undefined behaviour
    last          \* the most recent call: operation, arguments, result, calls made

vars == <<allocs, frees, handleRec, ctxRec, den, okCalls, okSpeech,
          scratch, carried, crashed, last>>

\* ------------------------------------------------------------ call events
Ev(e, kind, id, ok) == [e |-> e, kind |-> kind, id |-> id, ok |-> ok]

Count(tr, P(_)) == Cardinality({i \in DOMAIN tr : P(tr[i])})

IsAlloc(ev, kind, id) ==
    /\ ev.e \in {"new", "denoiser_create", "audx_resample_create"}
    /\ ev.kind = kind /\ ev.id = id /\ ev.ok

IsFree(ev, kind, id) ==
    /\ ev.e \in {"delete", "denoiser_destroy", "audx_resample_destroy"}
    /\ ev.kind = kind /\ ev.id = id /\ id # NULL

NoObjects == [k \in Kinds |-> [i \in Ids |-> 0]]

HeapCalls(tr) ==
    SelectSeq(tr, LAMBDA ev : ev.e \in {"new", "denoiser_create",
                  "audx_resample_create", "delete", "denoiser_destroy",
                  "audx_resample_destroy"})

AllocsAfter(before, tr) ==
    LET hc == HeapCalls(tr)
    IN [k \in Kinds |-> [i \in Ids |->
           before[k][i] + Count(hc, LAMBDA ev : IsAlloc(ev, k, i))]]

FreesAfter(before, tr) ==
    LET hc == HeapCalls(tr)
    IN [k \in Kinds |-> [i \in Ids |->
           before[k][i] + Count(hc, LAMBDA ev : IsFree(ev, k, i))]]

Live(kind, id) == id # NULL /\ allocs[kind][id] = 1 /\ frees[kind][id] = 0

Pos(tr, e, kind) ==
    LET s == {i \in DOMAIN tr : tr[i].e = e /\ tr[i].kind = kind}
    IN IF s = {} THEN 0 ELSE CHOOSE i \in s : \A j \in s : i <= j

\* ------------------------------------------------------- external contract
get_frame_samples(rate) == (rate * 10 + 500) \div 1000

\* denoiser_process takes two buffers and no length: it reads one frame of
\* the engine's fixed size from its input buffer.
EngineFrameSamples == AUDX_DEFAULT_FRAME_SIZE

EngineInitStats ==
    [frames_processed |-> 0, speech_frames |-> 0, total_vad_score |-> 0,
     min_vad_score |-> VadScale, max_vad_score |-> 0,
     total_processing_time |-> 0, last_frame_time |-> 0]

Min2(a, b) == IF a < b THEN a ELSE b
Max2(a, b) == IF a > b THEN a ELSE b

RecordFrame(s, r, latency) ==
    [frames_processed |-> s.frames_processed + 1,
     speech_frames |-> s.speech_frames + (IF r.is_speech THEN 1 ELSE 0),
     total_vad_score |-> s.total_vad_score + r.vad_probability,
     min_vad_score |-> Min2(s.min_vad_score, r.vad_probability),
     max_vad_score |-> Max2(s.max_vad_score, r.vad_probability),
     total_processing_time |-> s.total_processing_time + latency,
     last_frame_time |-> latency]

Snapshot(s) ==
    [frame_processed |-> s.frames_processed,
     speech_detected |-> s.speech_frames,
     vscores_avg |-> IF s.frames_processed = 0 THEN 0
                     ELSE s.total_vad_score \div s.frames_processed,
     vscores_min |-> s.min_vad_score,
     vscores_max |-> s.max_vad_score,
     ptime_total |-> s.total_processing_time,
     ptime_avg |-> IF s.frames_processed = 0 THEN 0
                   ELSE s.total_processing_time \div s.frames_processed,
     ptime_last |-> s.last_frame_time]

NoStats == Snapshot(EngineInitStats)

NoResult == [vad_probability |-> 0, is_speech |-> FALSE, samples_processed |-> 0]
NoCtx == [input_rate |-> 0, output_rate |-> 0, quality |-> 0,
          needs_resampling |-> FALSE, input_frame_samples |-> 0,
          output_frame_samples |-> 0, upsampler |-> NULL, downsampler |-> NULL]
NoHandle == [denoiser |-> NULL, resampler_ctx |-> NULL]
\* The record of one call: op the handler, h the handle passed (returned,
\* for create), ok "did not return the failure value", live "h was a live
\* session when the call was made", uaf "the call read freed memory", prev
\* what the call before a process call was, trace the calls made, result /
\* stats the object returned.  prev is kept for successful process calls.
\* up_out_len is the out_len the upsampler reported and engine_in_len the
\* number of samples of its input buffer the engine read (0: not run).
\* For a call that returns a result, engine_result is the DenoiserResult the
\* engine filled in and down_out_len the out_len the downsampler reported.
\* engine_bufs names the input and output buffer the engine was run on.
NoCall == [op |-> "none", h |-> NULL, id |-> NULL, ok |-> TRUE, live |-> FALSE,
           uaf |-> FALSE, prev |-> "other", trace |-> <<>>,
           result |-> NoResult, stats |-> NoStats,
           up_out_len |-> 0, engine_in_len |-> 0,
           engine_result |-> NoResult, down_out_len |-> 0,
           engine_bufs |-> << >>]

PrevCall(h) ==
    IF last.h # h \/ ~last.live THEN "other"
    ELSE IF last.op = "resetStats" THEN "resetStats"
    ELSE IF last.op = "process" /\ ~last.ok THEN "failedProcess"
    ELSE "other"

\* ------------------------------------------------------------ createNative
NeedsResampling(inputSampleRate) == inputSampleRate # AUDX_DEFAULT_SAMPLE_RATE

NewContext(id, inputSampleRate, resampleQuality, upOk, downOk) ==
    [input_rate |-> inputSampleRate,
     output_rate |-> AUDX_DEFAULT_SAMPLE_RATE,
     quality |-> resampleQuality,
     needs_resampling |-> NeedsResampling(inputSampleRate),
     input_frame_samples |-> get_frame_samples(inputSampleRate),
     output_frame_samples |-> AUDX_DEFAULT_FRAME_SIZE,
     upsampler |-> IF NeedsResampling(inputSampleRate) /\ upOk THEN id ELSE NULL,
     downsampler |-> IF NeedsResampling(inputSampleRate) /\ downOk THEN id ELSE NULL]

\* Mutant of ConvertersFailed: "&&" written for "||" at line 98.
C8_Mutant_ConvertersFailed(upsampler, downsampler) ==
    upsampler = NULL /\ downsampler = NULL

ConvertersFailed(upsampler, downsampler) ==
    upsampler = NULL \/ downsampler = NULL

\* Mutant of CreateUnwind: the unwind forgets the upsampler (line 100 missing).
C1_Mutant_CreateUnwind(id, upsampler, downsampler) ==
    << Ev("audx_resample_destroy", "down", downsampler, TRUE),
       Ev("delete", "ctx", id, TRUE),
       Ev("denoiser_destroy", "engine", id, TRUE),
       Ev("delete", "denoiser", id, TRUE) >>

CreateUnwind(id, upsampler, downsampler) ==
    << Ev("audx_resample_destroy", "up", upsampler, TRUE),
       Ev("audx_resample_destroy", "down", downsampler, TRUE),
       Ev("delete", "ctx", id, TRUE),
       Ev("denoiser_destroy", "engine", id, TRUE),
       Ev("delete", "denoiser", id, TRUE) >>

CreateEngineFailed(id) == << Ev("delete", "denoiser", id, TRUE) >>

CreateTrace(id, hasPath, ret, ctx) ==
    LET getStr == IF hasPath
                  THEN << Ev("GetStringUTFChars", "modelPath", id, TRUE) >>
                  ELSE << >>
        relStr == IF hasPath
                  THEN << Ev("ReleaseStringUTFChars", "modelPath", id, TRUE) >>
                  ELSE << >>
        engine == << Ev("new", "denoiser", id, TRUE),
                     Ev("denoiser_create", "engine", id, ret = AUDX_SUCCESS) >>
        newCtx == << Ev("new", "ctx", id, TRUE) >>
        mk == << Ev("audx_resample_create", "up", id, ctx.upsampler # NULL),
                 Ev("audx_resample_create", "down", id, ctx.downsampler # NULL) >>
        newHandle == << Ev("new", "handle", id, TRUE) >>
    IN IF ret # AUDX_SUCCESS
       THEN getStr \o engine \o CreateEngineFailed(id)
       ELSE IF ret < 0
       THEN getStr \o engine \o relStr \o CreateEngineFailed(id)
       ELSE IF ctx.needs_resampling
       THEN IF ConvertersFailed(ctx.upsampler, ctx.downsampler)
            THEN getStr \o engine \o relStr \o newCtx \o mk
                 \o CreateUnwind(id, ctx.upsampler, ctx.downsampler)
            ELSE getStr \o engine \o relStr \o newCtx \o mk \o newHandle
       ELSE getStr \o engine \o relStr \o newCtx \o newHandle

Returned(tr, id) == \E i \in DOMAIN tr : tr[i] = Ev("new", "handle", id, TRUE)

Create(hasPath, inputSampleRate, resampleQuality, ret, upOk, downOk) ==
    /\ ~crashed
    /\ \A i \in Ids : ~Live("handle", i)
    /\ LET id == CHOOSE i \in Ids : TRUE
           ctx == NewContext(id, inputSampleRate, resampleQuality, upOk, downOk)
           tr == CreateTrace(id, hasPath, ret, ctx)
           ok == Returned(tr, id)
       IN /\ allocs' = AllocsAfter(NoObjects, tr)
          /\ frees' = FreesAfter(NoObjects, tr)
          /\ handleRec' = [handleRec EXCEPT ![id] =
                IF ok THEN [denoiser |-> id, resampler_ctx |-> id] ELSE NoHandle]
          /\ ctxRec' = [ctxRec EXCEPT ![id] = IF ok THEN ctx ELSE NoCtx]
          /\ den' = [den EXCEPT ![id] = EngineInitStats]
          /\ carried' = {}
          /\ last' = [NoCall EXCEPT !.op = "create", !.h = IF ok THEN id ELSE NULL,
                                    !.id = id, !.ok = ok, !.trace = tr]
    /\ UNCHANGED <<okCalls, okSpeech, scratch, crashed>>

\* ----------------------------------------------------------- destroyNative
\* Mutant of DestroyTrace: the two blocks of lines 128-137 swapped, so that
\* the converters are released before the engine.
C4_Mutant_DestroyTrace(h, denoiser, resampler_ctx, upsampler, downsampler) ==
    IF h # NULL
    THEN (IF resampler_ctx # NULL
          THEN << Ev("audx_resample_destroy", "up", upsampler, TRUE),
                  Ev("audx_resample_destroy", "down", downsampler, TRUE),
                  Ev("delete", "ctx", resampler_ctx, TRUE) >>
          ELSE << >>)
         \o (IF denoiser # NULL
             THEN << Ev("denoiser_destroy", "engine", denoiser, TRUE),
                     Ev("delete", "denoiser", denoiser, TRUE) >>
             ELSE << >>)
         \o << Ev("delete", "handle", h, TRUE) >>
    ELSE << >>

DestroyTrace(h, denoiser, resampler_ctx, upsampler, downsampler) ==
    IF h # NULL
    THEN (IF denoiser # NULL
          THEN << Ev("denoiser_destroy", "engine", denoiser, TRUE),
                  Ev("delete", "denoiser", denoiser, TRUE) >>
          ELSE << >>)
         \o (IF resampler_ctx # NULL
             THEN << Ev("audx_resample_destroy", "up", upsampler, TRUE),
                     Ev("audx_resample_destroy", "down", downsampler, TRUE),
                     Ev("delete", "ctx", resampler_ctx, TRUE) >>
             ELSE << >>)
         \o << Ev("delete", "handle", h, TRUE) >>
    ELSE << >>

DestroyEffect(h, tr, wasLive) ==
    /\ allocs' = AllocsAfter(allocs, tr)
    /\ frees' = FreesAfter(frees, tr)
    /\ last' = [NoCall EXCEPT !.op = "destroy", !.h = h, !.id = h,
                              !.live = wasLive, !.trace = tr,
                              !.uaf = (h # NULL /\ ~wasLive)]
    /\ UNCHANGED <<handleRec, ctxRec, scratch, crashed>>

DestroyNull ==
    /\ ~crashed
    /\ DestroyEffect(NULL, DestroyTrace(NULL, NULL, NULL, NULL, NULL), FALSE)
    /\ UNCHANGED <<den, okCalls, okSpeech, carried>>

DestroyLive(h) ==
    /\ ~crashed
    /\ Live("handle", h)
    /\ DestroyEffect(h,
          DestroyTrace(h, handleRec[h].denoiser, handleRec[h].resampler_ctx,
                       ctxRec[handleRec[h].resampler_ctx].upsampler,
                       ctxRec[handleRec[h].resampler_ctx].downsampler),
          TRUE)
    \* the Denoiser is deleted: its fields no longer hold a value
    /\ den' = [den EXCEPT ![h] = EngineInitStats]
    /\ okCalls' = [okCalls EXCEPT ![h] = 0]
    /\ okSpeech' = [okSpeech EXCEPT ![h] = 0]
    \* the engine and the converters are gone, and their state with them
    /\ carried' = {}

\* The NativeHandle at h was deleted: every field read through it is a read
\* of freed memory, which yields the stale pointer or null (or the process
\* dies).
StaleReads(h) ==
    {rd \in [denoiser : {handleRec[h].denoiser, NULL},
             resampler_ctx : {handleRec[h].resampler_ctx, NULL},
             upsampler : {ctxRec[h].upsampler, NULL},
             downsampler : {ctxRec[h].downsampler, NULL}] :
        rd.resampler_ctx = NULL => rd.upsampler = NULL /\ rd.downsampler = NULL}

DestroyStaleRead(h, crash, denoiser, resampler_ctx, upsampler, downsampler) ==
    /\ IF crash
       THEN /\ crashed' = TRUE
            /\ last' = [NoCall EXCEPT !.op = "destroy", !.h = h, !.id = h,
                                      !.ok = FALSE, !.uaf = TRUE]
            /\ UNCHANGED <<allocs, frees, handleRec, ctxRec, scratch>>
       ELSE DestroyEffect(h,
                DestroyTrace(h, denoiser, resampler_ctx, upsampler, downsampler),
                FALSE)
    /\ UNCHANGED <<den, okCalls, okSpeech, carried>>

DestroyStale(h) ==
    /\ ~crashed
    /\ allocs["handle"][h] = 1
    /\ frees["handle"][h] >= 1
    /\ frees["handle"][h] <= MaxStaleDestroys
    /\ \E crash \in BOOLEAN, rd \in StaleReads(h) :
          /\ crash => rd = [denoiser |-> NULL, resampler_ctx |-> NULL,
                            upsampler |-> NULL, downsampler |-> NULL]
          /\ DestroyStaleRead(h, crash, rd.denoiser, rd.resampler_ctx,
                              rd.upsampler, rd.downsampler)

\* ----------------------------------------------------------- processNative
InvalidHandle(h) == h = NULL \/ handleRec[h].denoiser = NULL

GetArrays(h) ==
    << Ev("GetShortArrayElements", "input", h, TRUE),
       Ev("GetShortArrayElements", "output", h, TRUE) >>

ReleaseAbort(h) ==
    << Ev("ReleaseShortArrayElements(JNI_ABORT)", "input", h, TRUE),
       Ev("ReleaseShortArrayElements(JNI_ABORT)", "output", h, TRUE) >>

ReleaseCommit(h) ==
    << Ev("ReleaseShortArrayElements(JNI_ABORT)", "input", h, TRUE),
       Ev("ReleaseShortArrayElements(0)", "output", h, TRUE) >>

\* malloc: ok is "the pointer returned is not null"
ScratchAlloc(h, mIn, mOut) ==
    << Ev("malloc", "resampled_input", h, mIn),
       Ev("malloc", "resampled_output", h, mOut) >>

\* free: ok is "the pointer passed is not null" (free(NULL) releases nothing)
ScratchFree(h, mIn, mOut) ==
    << Ev("free", "resampled_input", h, mIn),
       Ev("free", "resampled_output", h, mOut) >>

AllocFailExit(h, mIn, mOut) == ScratchFree(h, mIn, mOut) \o ReleaseAbort(h)

\* Mutant of UpFailExit: the early return forgets the two free() calls.
C6_Mutant_UpFailExit(h) == ReleaseAbort(h)

UpFailExit(h) == ScratchFree(h, TRUE, TRUE) \o ReleaseAbort(h)

\* Mutant of EngineFailExit: a failed frame tears the engine down.
C5_Mutant_EngineFailExit(h) ==
    ScratchFree(h, TRUE, TRUE) \o ReleaseAbort(h)
    \o << Ev("denoiser_destroy", "engine", handleRec[h].denoiser, TRUE),
          Ev("delete", "denoiser", handleRec[h].denoiser, TRUE) >>

EngineFailExit(h) == ScratchFree(h, TRUE, TRUE) \o ReleaseAbort(h)

DownFailExit(h) == ReleaseAbort(h)

DirectFailExit(h) == ReleaseAbort(h)

\* FindClass, GetMethodID and NewObject; m names the first of them that
\* returns null, "ok" when none does.
Marshal(h, m) ==
    IF m = "FindClass"
    THEN << Ev("FindClass", "result", h, FALSE) >>
    ELSE IF m = "GetMethodID"
    THEN << Ev("FindClass", "result", h, TRUE),
            Ev("GetMethodID", "result", h, FALSE) >>
    ELSE << Ev("FindClass", "result", h, TRUE),
            Ev("GetMethodID", "result", h, TRUE),
            Ev("NewObject", "result", h, m = "ok") >>

\* Mutant of ResampledTrace: the early return of lines 202-209 is missing, so
\* the downsampler runs after the engine has failed.
C16_Mutant_ResampledTrace(h, denoiser, ctx, env) ==
    LET al == ScratchAlloc(h, env.mIn, env.mOut)
        up == << Ev("audx_resample_process", "up", ctx.upsampler,
                    env.upRet = AUDX_SUCCESS) >>
        eng == << Ev("denoiser_process", "engine", denoiser,
                     env.engRet = AUDX_SUCCESS) >>
        down == << Ev("audx_resample_process", "down", ctx.downsampler,
                      env.downRet = AUDX_SUCCESS) >>
    IN IF ~env.mIn \/ ~env.mOut
       THEN al \o AllocFailExit(h, env.mIn, env.mOut)
       ELSE IF env.upRet # AUDX_SUCCESS
       THEN al \o up \o UpFailExit(h)
       ELSE IF env.engRet # AUDX_SUCCESS \/ env.downRet # AUDX_SUCCESS
       THEN al \o up \o eng \o down \o ScratchFree(h, TRUE, TRUE) \o DownFailExit(h)
       ELSE al \o up \o eng \o down \o ScratchFree(h, TRUE, TRUE)
            \o ReleaseCommit(h) \o Marshal(h, env.marshal)


ResampledTrace(h, denoiser, ctx, env) ==
    LET al == ScratchAlloc(h, env.mIn, env.mOut)
        up == << Ev("audx_resample_process", "up", ctx.upsampler,
                    env.upRet = AUDX_SUCCESS) >>
        eng == << Ev("denoiser_process", "engine", denoiser,
                     env.engRet = AUDX_SUCCESS) >>
        down == << Ev("audx_resample_process", "down", ctx.downsampler,
                      env.downRet = AUDX_SUCCESS) >>
    IN IF ~env.mIn \/ ~env.mOut
       THEN al \o AllocFailExit(h, env.mIn, env.mOut)
       ELSE IF env.upRet # AUDX_SUCCESS
       THEN al \o up \o UpFailExit(h)
       ELSE IF env.engRet # AUDX_SUCCESS
       THEN al \o up \o eng \o EngineFailExit(h)
       ELSE IF env.downRet # AUDX_SUCCESS
       THEN al \o up \o eng \o down \o ScratchFree(h, TRUE, TRUE) \o DownFailExit(h)
       ELSE al \o up \o eng \o down \o ScratchFree(h, TRUE, TRUE)
            \o ReleaseCommit(h) \o Marshal(h, env.marshal)

\* Mutant of DirectTrace: the direct path takes the two scratch buffers too.
C17_Mutant_DirectTrace(h, denoiser, env) ==
    LET eng == << Ev("denoiser_process", "engine", denoiser,
                     env.engRet = AUDX_SUCCESS) >>
    IN IF env.engRet # AUDX_SUCCESS
       THEN ScratchAlloc(h, TRUE, TRUE) \o eng \o ScratchFree(h, TRUE, TRUE)
            \o DirectFailExit(h)
       ELSE ScratchAlloc(h, TRUE, TRUE) \o eng \o ScratchFree(h, TRUE, TRUE)
            \o ReleaseCommit(h) \o Marshal(h, env.marshal)


DirectTrace(h, denoiser, env) ==
    LET eng == << Ev("denoiser_process", "engine", denoiser,
                     env.engRet = AUDX_SUCCESS) >>
    IN IF env.engRet # AUDX_SUCCESS
       THEN eng \o DirectFailExit(h)
       ELSE eng \o ReleaseCommit(h) \o Marshal(h, env.marshal)

\* Mutant of ProcessTrace: the arrays are acquired before the handle check.
C18_Mutant_ProcessTrace(h, env) ==
    IF InvalidHandle(h)
    THEN GetArrays(h) \o ReleaseAbort(h)
    ELSE LET denoiser == handleRec[h].denoiser
             ctx == ctxRec[handleRec[h].resampler_ctx]
         IN GetArrays(h)
            \o (IF ctx.needs_resampling
                THEN ResampledTrace(h, denoiser, ctx, env)
                ELSE DirectTrace(h, denoiser, env))


ProcessTrace(h, env) ==
    IF InvalidHandle(h)
    THEN << >>
    ELSE LET denoiser == handleRec[h].denoiser
             ctx == ctxRec[handleRec[h].resampler_ctx]
         IN GetArrays(h)
            \o (IF ctx.needs_resampling
                THEN ResampledTrace(h, denoiser, ctx, env)
                ELSE DirectTrace(h, denoiser, env))

Has(tr, e, kind, ok) ==
    \E i \in DOMAIN tr : tr[i].e = e /\ tr[i].kind = kind /\ tr[i].ok = ok

EngineRan(tr) == Has(tr, "denoiser_process", "engine", TRUE)
DownRan(tr) == Has(tr, "audx_resample_process", "down", TRUE)
ReturnsObject(tr) == Has(tr, "NewObject", "result", TRUE)

\* The collaborators that consumed a frame in this call: each keeps state
\* from one call to the next, so a successful run moves its state on.
Stages == {"up", "engine", "down"}

StagesRun(tr) ==
    {k \in Stages :
        \/ Has(tr, "audx_resample_process", k, TRUE)
        \/ Has(tr, "denoiser_process", k, TRUE)}

ScratchAfter(tr) ==
    scratch + Count(tr, LAMBDA ev : ev.e = "malloc" /\ ev.ok)
            - Count(tr, LAMBDA ev : ev.e = "free" /\ ev.ok)

\* Mutant of ProcessResult: line 228 missing, the engine's count is returned.
C15_Mutant_ProcessResult(tr, r, out_len) == r

\* The result handed to NewObject: the engine's result, with samples_processed
\* overwritten by the downconverter's out_len in the resampled path.
ProcessResult(tr, r, out_len) ==
    IF DownRan(tr) THEN [r EXCEPT !.samples_processed = out_len] ELSE r

EngineResults ==
    [vad_probability : VadValues, is_speech : BOOLEAN,
     samples_processed : {AUDX_DEFAULT_FRAME_SIZE}]

MarshalOutcomes == {"ok", "FindClass", "GetMethodID"}

\* What the collaborators answer during one call.  An answer that is never
\* asked for (the call has returned before, or the path does not ask) is
\* held at its success value, so that each run of the handler is drawn once.
AllEnvs ==
    [mIn : BOOLEAN, mOut : BOOLEAN, upRet : RetCodes, engRet : RetCodes,
     downRet : RetCodes, marshal : MarshalOutcomes]

Asked(env) ==
    /\ (~env.mIn \/ ~env.mOut) => env.upRet = AUDX_SUCCESS
    /\ env.upRet # AUDX_SUCCESS => env.engRet = AUDX_SUCCESS
    /\ env.engRet # AUDX_SUCCESS => env.downRet = AUDX_SUCCESS
    /\ (env.engRet # AUDX_SUCCESS \/ env.downRet # AUDX_SUCCESS)
          => env.marshal = "ok"

ResampledEnvs == {env \in AllEnvs : Asked(env)}

DirectEnvs ==
    {env \in ResampledEnvs :
        env.mIn /\ env.mOut /\ env.upRet = AUDX_SUCCESS
        /\ env.downRet = AUDX_SUCCESS}

NoEnv == [mIn |-> TRUE, mOut |-> TRUE, upRet |-> AUDX_SUCCESS,
          engRet |-> AUDX_SUCCESS, downRet |-> AUDX_SUCCESS, marshal |-> "ok"]

ProcessEnvs(h) ==
    IF InvalidHandle(h) THEN {NoEnv}
    ELSE IF ctxRec[handleRec[h].resampler_ctx].needs_resampling
    THEN ResampledEnvs
    ELSE DirectEnvs

\* The out_len the upsampler reports (lines 185-188): it is handed the
\* capacity output_frame_samples and writes back what it produced, which may
\* be less.  0 stands for "the upsampler did not run or failed".
UpOutLens(h, tr) ==
    IF Has(tr, "audx_resample_process", "up", TRUE)
    THEN {ctxRec[handleRec[h].resampler_ctx].output_frame_samples - 1,
          ctxRec[handleRec[h].resampler_ctx].output_frame_samples}
    ELSE {0}

\* The samples of its input buffer the engine reads in this call (line 200
\* and line 231: no length is passed).
EngineInLen(tr) ==
    IF \E i \in DOMAIN tr : tr[i].e = "denoiser_process"
    THEN EngineFrameSamples ELSE 0

\* The buffers handed to denoiser_process: the scratch buffers at line 200,
\* the caller's arrays at line 231.
EngineBuffers(h, tr) ==
    IF EngineInLen(tr) = 0 THEN << >>
    ELSE IF ctxRec[handleRec[h].resampler_ctx].needs_resampling
    THEN << "resampled_input", "resampled_output" >>
    ELSE << "input", "output" >>

OutLens(h) ==
    {ctxRec[handleRec[h].resampler_ctx].input_frame_samples - 1,
     ctxRec[handleRec[h].resampler_ctx].input_frame_samples}

Process(h) ==
    /\ ~crashed
    /\ h = NULL \/ Live("handle", h)
    /\ \E env \in ProcessEnvs(h) :
          LET tr == ProcessTrace(h, env)
              ok == ReturnsObject(tr)
              ran == EngineRan(tr)
              id == IF h = NULL THEN NULL ELSE handleRec[h].denoiser
          IN /\ ran => den[id].frames_processed < MaxFrames
             /\ scratch' = ScratchAfter(tr)
             /\ carried' = carried \cup StagesRun(tr)
             /\ allocs' = AllocsAfter(allocs, tr)
             /\ frees' = FreesAfter(frees, tr)
             /\ okCalls' = IF ok THEN [okCalls EXCEPT ![h] = @ + 1] ELSE okCalls
             /\ \E r \in (IF ran THEN EngineResults ELSE {NoResult}),
                   latency \in (IF ran THEN Latencies ELSE {0}) :
                   /\ den' = IF ran
                         THEN [den EXCEPT ![id] = RecordFrame(den[id], r, latency)]
                         ELSE den
                   /\ okSpeech' = IF ok /\ r.is_speech
                         THEN [okSpeech EXCEPT ![h] = @ + 1] ELSE okSpeech
                   /\ \E out_len \in (IF ok /\ DownRan(tr) THEN OutLens(h) ELSE {0}),
                         up_out_len \in UpOutLens(h, tr) :
                         last' = [NoCall EXCEPT !.op = "process", !.h = h, !.id = id,
                                    !.ok = ok, !.live = (h # NULL), !.trace = tr,
                                    !.up_out_len = up_out_len,
                                    !.engine_in_len = EngineInLen(tr),
                                    !.engine_result = IF ok THEN r ELSE NoResult,
                                    !.down_out_len = out_len,
                                    !.engine_bufs = EngineBuffers(h, tr),
                                    !.prev = IF ok THEN PrevCall(h) ELSE "other",
                                    !.result = IF ok
                                               THEN ProcessResult(tr, r, out_len)
                                               ELSE NoResult]
    /\ UNCHANGED <<handleRec, ctxRec, crashed>>

\* ---------------------------------------------------------- getStatsNative
\* Mutant of GetStatsTrace: an aggregate without frames is taken for a
\* failure, and null is returned after the statistics were read.
C12_Mutant_GetStatsTrace(h, ret, m) ==
    IF InvalidHandle(h)
    THEN << >>
    ELSE IF ret # AUDX_SUCCESS
    THEN << Ev("get_denoiser_stats", "engine", handleRec[h].denoiser, FALSE) >>
    ELSE IF den[handleRec[h].denoiser].frames_processed = 0
    THEN << Ev("get_denoiser_stats", "engine", handleRec[h].denoiser, TRUE) >>
    ELSE << Ev("get_denoiser_stats", "engine", handleRec[h].denoiser, TRUE) >>
         \o Marshal(h, m)


GetStatsTrace(h, ret, m) ==
    IF InvalidHandle(h)
    THEN << >>
    ELSE IF ret # AUDX_SUCCESS
    THEN << Ev("get_denoiser_stats", "engine", handleRec[h].denoiser, FALSE) >>
    ELSE << Ev("get_denoiser_stats", "engine", handleRec[h].denoiser, TRUE) >>
         \o Marshal(h, m)

GetStats(h, ret, m) ==
    /\ ~crashed
    /\ h = NULL \/ Live("handle", h)
    /\ ret # AUDX_SUCCESS \/ h = NULL => m = "ok"
    /\ h = NULL => ret = AUDX_SUCCESS
    /\ LET tr == GetStatsTrace(h, ret, m)
           ok == ReturnsObject(tr)
       IN last' = [NoCall EXCEPT !.op = "getStats", !.h = h, !.id = h, !.ok = ok,
                      !.live = (h # NULL), !.trace = tr,
                      !.stats = IF ok THEN Snapshot(den[handleRec[h].denoiser])
                                ELSE NoStats]
    /\ UNCHANGED <<allocs, frees, handleRec, ctxRec, den, okCalls,
                   okSpeech, scratch, carried, crashed>>

\* -------------------------------------------------------- resetStatsNative
\* Mutant of ResetStatsFields: min_vad_score reset to 0.0 like the others.
C10_Mutant_ResetStatsFields(s) ==
    [s EXCEPT !.frames_processed = 0,
              !.speech_frames = 0,
              !.total_vad_score = 0,
              !.min_vad_score = 0,
              !.max_vad_score = 0,
              !.total_processing_time = 0,
              !.last_frame_time = 0]

\* Mutant of ResetStatsFields: line 372 missing, last_frame_time keeps the
\* latency of the last frame.
C11_Mutant_ResetStatsFields(s) ==
    [s EXCEPT !.frames_processed = 0,
              !.speech_frames = 0,
              !.total_vad_score = 0,
              !.min_vad_score = VadScale,
              !.max_vad_score = 0,
              !.total_processing_time = 0]

ResetStatsFields(s) ==
    [s EXCEPT !.frames_processed = 0,
              !.speech_frames = 0,
              !.total_vad_score = 0,
              !.min_vad_score = VadScale,
              !.max_vad_score = 0,
              !.total_processing_time = 0,
              !.last_frame_time = 0]

ResetStats(h) ==
    /\ ~crashed
    /\ h = NULL \/ Live("handle", h)
    /\ IF InvalidHandle(h)
       THEN UNCHANGED <<den, okCalls, okSpeech>>
       ELSE /\ den' = [den EXCEPT ![handleRec[h].denoiser] = ResetStatsFields(@)]
            /\ okCalls' = [okCalls EXCEPT ![h] = 0]
            /\ okSpeech' = [okSpeech EXCEPT ![h] = 0]
    /\ last' = [NoCall EXCEPT !.op = "resetStats", !.h = h, !.id = h,
                              !.live = (h # NULL)]
    /\ UNCHANGED <<allocs, frees, handleRec, ctxRec, scratch, carried, crashed>>

\* ------------------------------------------------------------ specification
Init ==
    /\ allocs = NoObjects
    /\ frees = NoObjects
    /\ handleRec = [i \in Ids |-> NoHandle]
    /\ ctxRec = [i \in Ids |-> NoCtx]
    /\ den = [i \in Ids |-> EngineInitStats]
    /\ okCalls = [i \in Ids |-> 0]
    /\ okSpeech = [i \in Ids |-> 0]
    /\ scratch = 0
    /\ carried = {}
    /\ crashed = FALSE
    /\ last = NoCall

Handles == {NULL} \cup Ids

Next ==
    \/ \E hasPath \in BOOLEAN, rate \in Rates, q \in Qualities,
          ret \in RetCodes, upOk \in BOOLEAN, downOk \in BOOLEAN :
          Create(hasPath, rate, q, ret, upOk, downOk)
    \/ DestroyNull
    \/ \E h \in Ids : DestroyLive(h)
    \/ \E h \in Ids : DestroyStale(h)
    \/ \E h \in Handles : Process(h)
    \/ \E h \in Handles, ret \in RetCodes, m \in MarshalOutcomes :
          GetStats(h, ret, m)
    \/ \E h \in Handles : ResetStats(h)

Spec == Init /\ [][Next]_vars

\* ================================================================== claims
LiveHandles == {h \in Ids : Live("handle", h)}

NothingAllocated == \A k \in Kinds, i \in Ids : allocs[k][i] = frees[k][i]

\* C1: createNative is all-or-nothing.  Whenever it returns 0 (the engine
\* could not be created, or one or both converters could not), no Denoiser,
\* engine instance, converter, ResamplerContext or NativeHandle is left
\* allocated: everything the call constructed has been released once.
C1_CreateAllOrNothing ==
    (last.op = "create" /\ ~last.ok) => (last.h = NULL /\ NothingAllocated)

\* C1 witness: a create that failed with the upsampler built and the
\* downsampler not.
C1_Witness ==
    /\ last.op = "create" /\ ~last.ok
    /\ allocs["up"][last.id] = 1 /\ allocs["down"][last.id] = 0

\* The call returned from one of the failure exits of lines 175-238 (scratch
\* allocation, upsampler, engine, downsampler).
FrameFailure(call) ==
    /\ call.op = "process" /\ call.live /\ ~call.ok
    /\ ~Has(call.trace, "FindClass", "result", TRUE)
    /\ ~Has(call.trace, "FindClass", "result", FALSE)

\* C2 (as claimed): a processNative call that fails (scratch allocation,
\* upsampler, engine or downsampler failure) leaves every statistics field
\* of the Denoiser as it was before the call.
C2_StatsUnchangedOnFailure ==
    [][FrameFailure(last') => den' = den]_vars

\* C3 (as claimed): destroyNative on the null handle or on a handle that was
\* already destroyed is a no-op: it releases nothing and reads no freed
\* memory.
C3_DestroyIdempotent ==
    (last.op = "destroy" /\ ~last.live) =>
        (last.trace = << >> /\ ~last.uaf /\ last.ok)

\* C4 (as claimed): destroyNative releases both converters first, then the
\* engine, and the NativeHandle last.
C4_ConvertersBeforeEngine ==
    (last.op = "destroy" /\ last.live) =>
        /\ Pos(last.trace, "audx_resample_destroy", "up")
              < Pos(last.trace, "denoiser_destroy", "engine")
        /\ Pos(last.trace, "audx_resample_destroy", "down")
              < Pos(last.trace, "denoiser_destroy", "engine")
        /\ Pos(last.trace, "delete", "handle") = Len(last.trace)

\* C4 (amended): destroyNative of a live session releases, in this order,
\* the engine (denoiser_destroy, then the Denoiser), the upsampler, the
\* downsampler, the ResamplerContext, and the NativeHandle last.
C4_EngineBeforeConverters ==
    (last.op = "destroy" /\ last.live) =>
        /\ Pos(last.trace, "denoiser_destroy", "engine") = 1
        /\ Pos(last.trace, "delete", "denoiser") = 2
        /\ Pos(last.trace, "audx_resample_destroy", "up") = 3
        /\ Pos(last.trace, "audx_resample_destroy", "down") = 4
        /\ Pos(last.trace, "delete", "ctx") = 5
        /\ Pos(last.trace, "delete", "handle") = 6
        /\ Len(last.trace) = 6

\* C4 witness: a session with both converters has been destroyed.
C4_Witness ==
    /\ last.op = "destroy" /\ last.live
    /\ ctxRec[last.h].needs_resampling
    /\ frees["up"][last.h] = 1 /\ frees["down"][last.h] = 1

\* C5: a processNative call that fails on a live session performs no
\* teardown: the NativeHandle, the engine, the ResamplerContext and both
\* converters are allocated after the call as before it, and the handle and
\* context still point at the same instances.  (That a following call can
\* succeed is the witness.)
C5_FailureKeepsSession ==
    [][(last'.op = "process" /\ ~last'.ok /\ last'.live) =>
          /\ allocs' = allocs /\ frees' = frees
          /\ handleRec' = handleRec /\ ctxRec' = ctxRec
          /\ Live("handle", last'.h)
          /\ Live("engine", handleRec[last'.h].denoiser)]_vars

\* C5 witness: a process call succeeded right after a failed process call on
\* the same handle.
C5_Witness ==
    last.op = "process" /\ last.ok /\ last.prev = "failedProcess"

ScratchBuffers == {"resampled_input", "resampled_output"}

\* C6: the scratch buffers are call-scoped.  No buffer is outstanding between
\* calls, and in every processNative call each buffer that malloc returned is
\* passed to free exactly once.
C6_ScratchReleasedOnce ==
    /\ scratch = 0
    /\ last.op = "process" =>
          \A b \in ScratchBuffers :
             Count(last.trace, LAMBDA ev : ev.e = "free" /\ ev.kind = b /\ ev.ok)
             = Count(last.trace, LAMBDA ev : ev.e = "malloc" /\ ev.kind = b /\ ev.ok)

\* C6 witness: a call in which malloc returned the first buffer and not the
\* second.
C6_Witness ==
    /\ last.op = "process"
    /\ Has(last.trace, "malloc", "resampled_input", TRUE)
    /\ Has(last.trace, "malloc", "resampled_output", FALSE)

\* C7 (as claimed): each converter is constructed at most once and destroyed
\* at most once, and no process, getStats or resetStats call constructs or
\* destroys one.
C7_ConvertersOnce ==
    /\ \A k \in {"up", "down"}, i \in Ids :
          allocs[k][i] <= 1 /\ frees[k][i] <= allocs[k][i]
    /\ last.op \in {"process", "getStats", "resetStats"} =>
          HeapCalls(last.trace) = << >>

\* C7, the part that holds: no process, getStats or resetStats call
\* constructs, destroys or replaces a converter.
C7_PersistentAcrossCalls ==
    [][last'.op \in {"process", "getStats", "resetStats"} =>
          /\ allocs' = allocs /\ frees' = frees /\ ctxRec' = ctxRec]_vars

SessionWellFormed(h) ==
    LET d == handleRec[h].denoiser
        c == handleRec[h].resampler_ctx
        ctx == ctxRec[c]
    IN /\ Live("denoiser", d) /\ Live("engine", d)
       /\ Live("ctx", c)
       /\ ctx.needs_resampling = (ctx.input_rate # AUDX_DEFAULT_SAMPLE_RATE)
       /\ IF ctx.needs_resampling
          THEN /\ Live("up", ctx.upsampler)
               /\ Live("down", ctx.downsampler)
          ELSE /\ ctx.upsampler = NULL /\ ctx.downsampler = NULL
               /\ allocs["up"][c] = 0 /\ allocs["down"][c] = 0

\* C8: every live session is fully constructed (engine valid, context
\* non-null, needs_resampling = (input rate # native rate), both converters
\* valid when it resamples and both absent when it does not), and no
\* operation on a session that stays live changes its handle or context.
C8_SessionFullyConstructed ==
    [][/\ \A h \in Ids : Live("handle", h)' => SessionWellFormed(h)'
       /\ \A h \in Ids : (Live("handle", h) /\ Live("handle", h)') =>
             (handleRec'[h] = handleRec[h] /\ ctxRec'[h] = ctxRec[h])]_vars

\* C8 witness: a resampling session is live after a successful process call.
C8_Witness ==
    /\ last.op = "process" /\ last.ok
    /\ Live("handle", last.h)
    /\ ctxRec[last.h].needs_resampling

\* C9 (as claimed): frames_processed is the number of successful process
\* calls since creation or the last reset, and speech_frames the number of
\* those whose result had is_speech.
C9_StatsCountSuccesses ==
    \A h \in LiveHandles :
       /\ den[handleRec[h].denoiser].frames_processed = okCalls[h]
       /\ den[handleRec[h].denoiser].speech_frames = okSpeech[h]

\* C10: resetStatsNative puts min_vad_score at 1.0 and max_vad_score at 0.0,
\* and the frame recorded by the successful process call that follows it
\* leaves min_vad_score = max_vad_score = the frame's VAD probability.
C10_FreshExtrema ==
    /\ (last.op = "resetStats" /\ last.live) =>
          /\ den[last.h].min_vad_score = VadScale
          /\ den[last.h].max_vad_score = 0
    /\ (last.op = "process" /\ last.ok /\ last.prev = "resetStats") =>
          /\ den[last.id].min_vad_score = last.result.vad_probability
          /\ den[last.id].max_vad_score = last.result.vad_probability

\* C10 witness: a frame with a probability strictly between the two
\* sentinels was recorded right after a reset.
C10_Witness ==
    /\ last.op = "process" /\ last.ok /\ last.prev = "resetStats"
    /\ last.result.vad_probability > 0
    /\ last.result.vad_probability < VadScale

\* C11: resetStatsNative on a live session changes the statistics fields of
\* the Denoiser and nothing else.  After it every statistics field has the
\* value it had when the session was created; the NativeHandle, the
\* ResamplerContext (rates, quality, needs_resampling, frame sizes, converter
\* pointers), the state carried by the engine and by both converters, the
\* heap and the scratch buffers are as they were before the call.
C11_ResetOnlyStats ==
    [][(last'.op = "resetStats" /\ last'.live) =>
          /\ den'[handleRec[last'.h].denoiser] = EngineInitStats
          /\ \A i \in Ids \ {handleRec[last'.h].denoiser} : den'[i] = den[i]
          /\ handleRec' = handleRec /\ ctxRec' = ctxRec
          /\ carried' = carried
          /\ allocs' = allocs /\ frees' = frees /\ scratch' = scratch
          /\ Live("handle", last'.h)]_vars

\* C11 witness: the statistics of a resampling session were reset after the
\* upsampler, the engine and the downsampler had each consumed a frame.
C11_Witness ==
    /\ last.op = "resetStats" /\ last.live
    /\ ctxRec[last.h].needs_resampling
    /\ carried = Stages
    /\ den[handleRec[last.h].denoiser] = EngineInitStats

\* getStatsNative was called on a live session whose aggregate holds no frame.
EmptyStatsRead ==
    /\ last.op = "getStats" /\ last.live
    /\ den[handleRec[last.h].denoiser].frames_processed = 0

ZeroAverages(stats) ==
    stats.frame_processed = 0 /\ stats.vscores_avg = 0 /\ stats.ptime_avg = 0

Failure(call) ==
    IF call.op = "create" /\ ~call.ok
    THEN IF Has(call.trace, "denoiser_create", "engine", FALSE)
         THEN "EngineInitFailed" ELSE "ResamplerInitFailed"
    ELSE IF call.op = "process" /\ ~call.ok
    THEN IF call.trace = << >> THEN "InvalidHandle"
         ELSE IF Has(call.trace, "audx_resample_process", "up", FALSE)
         THEN "ResampleInputFailed"
         ELSE IF Has(call.trace, "denoiser_process", "engine", FALSE)
         THEN "EngineProcessFailed"
         ELSE IF Has(call.trace, "audx_resample_process", "down", FALSE)
         THEN "ResampleOutputFailed"
         ELSE "none"
    ELSE "none"

\* The value the handler returns to its caller: the handle (0 on failure) for
\* createNative, the result object (null on failure) for processNative.
ReturnValue(call) ==
    IF call.op = "create" THEN call.h
    ELSE IF call.op = "process" /\ call.ok THEN call.result
    ELSE NULL

\* C13 (as claimed): two calls of the same operation that end with different
\* errors return different values: EngineInitFailed and ResamplerInitFailed
\* from createNative, and InvalidHandle, ResampleInputFailed,
\* EngineProcessFailed and ResampleOutputFailed from processNative, can be
\* told apart by the value returned.  Stated on two calls that follow one
\* another.
C13_DistinctFailureResults ==
    [][(/\ last.op = last'.op
        /\ Failure(last) # "none" /\ Failure(last') # "none"
        /\ Failure(last) # Failure(last'))
       => ReturnValue(last) # ReturnValue(last')]_vars

\* C14 (as claimed): in the resampled path the engine reads no sample of the
\* native-rate scratch buffer beyond the out_len the upsampler reported.
C14_EngineWithinUpsampled ==
    (/\ last.op = "process" /\ last.live
     /\ ctxRec[handleRec[last.h].resampler_ctx].needs_resampling
     /\ last.engine_in_len > 0)
    => last.engine_in_len <= last.up_out_len

\* The ResamplerContext of the session the last call was made on.
LastCtx == ctxRec[handleRec[last.h].resampler_ctx]

\* C15: a processNative call that returns a result returns, as
\* samples_processed, the out_len the downsampler reported when the session
\* resamples (at most input_frame_samples, and not the native-rate count the
\* engine wrote), and the count the engine wrote when it does not.
C15_SamplesProcessed ==
    (last.op = "process" /\ last.ok) =>
        IF LastCtx.needs_resampling
        THEN /\ last.result.samples_processed = last.down_out_len
             /\ last.result.samples_processed <= LastCtx.input_frame_samples
             /\ last.result.samples_processed # last.engine_result.samples_processed
        ELSE last.result.samples_processed = last.engine_result.samples_processed

\* C15 witness: a resampled call returned a result after the downsampler
\* reported fewer samples than the nominal frame.
C15_Witness ==
    /\ last.op = "process" /\ last.ok
    /\ LastCtx.needs_resampling
    /\ last.down_out_len > 0
    /\ last.down_out_len < LastCtx.input_frame_samples
    /\ last.engine_result.samples_processed = AUDX_DEFAULT_FRAME_SIZE

\* The positions in tr of the calls of e on the collaborator kind.
Calls(tr, e, kind) == {i \in DOMAIN tr : tr[i].e = e /\ tr[i].kind = kind}

\* C16: in a processNative call on a resampling session the upsampler, the
\* engine and the downsampler are each called at most once and in this
\* order, and a stage is called only if every stage before it was called and
\* returned AUDX_SUCCESS: after a failed upsampler neither the engine nor the
\* downsampler is called, after a failed engine the downsampler is not.
C16_StagesInOrder ==
    (last.op = "process" /\ last.live /\ LastCtx.needs_resampling) =>
        LET up == Calls(last.trace, "audx_resample_process", "up")
            eng == Calls(last.trace, "denoiser_process", "engine")
            down == Calls(last.trace, "audx_resample_process", "down")
        IN /\ Cardinality(up) <= 1 /\ Cardinality(eng) <= 1
           /\ Cardinality(down) <= 1
           /\ \A j \in eng : \E i \in up : i < j /\ last.trace[i].ok
           /\ \A k \in down : \E j \in eng : j < k /\ last.trace[j].ok
           /\ \A k \in down : \E i \in up : i < k /\ last.trace[i].ok

\* C16 witness: the engine failed after the upsampler had succeeded, and the
\* downsampler was not called.
C16_Witness ==
    /\ last.op = "process" /\ last.live /\ LastCtx.needs_resampling
    /\ Has(last.trace, "audx_resample_process", "up", TRUE)
    /\ Has(last.trace, "denoiser_process", "engine", FALSE)
    /\ Calls(last.trace, "audx_resample_process", "down") = {}

\* The number of events e in tr, whatever the collaborator.
Events(tr, e) == {i \in DOMAIN tr : tr[i].e = e}

\* C17: for a session created at the native rate, createNative constructs no
\* converter, and every processNative call on it calls denoiser_process
\* exactly once, on the caller's input and output arrays, calls no
\* converter, allocates no scratch buffer and, when it returns a result,
\* returns the vad_probability, is_speech and samples_processed the engine
\* wrote.
C17_DirectPath ==
    /\ (last.op = "create" /\ last.ok /\ ~ctxRec[last.h].needs_resampling) =>
          /\ Events(last.trace, "audx_resample_create") = {}
          /\ ctxRec[last.h].upsampler = NULL
          /\ ctxRec[last.h].downsampler = NULL
    /\ (last.op = "process" /\ last.live /\ ~LastCtx.needs_resampling) =>
          /\ Cardinality(Calls(last.trace, "denoiser_process", "engine")) = 1
          /\ last.engine_bufs = << "input", "output" >>
          /\ Events(last.trace, "audx_resample_process") = {}
          /\ Events(last.trace, "malloc") = {}
          /\ last.ok => last.result = last.engine_result

\* C17 witness: a call on a native-rate session returned a result with a
\* non-zero VAD probability and the speech flag set.
C17_Witness ==
    /\ last.op = "process" /\ last.ok /\ ~LastCtx.needs_resampling
    /\ last.result.vad_probability > 0 /\ last.result.is_speech
    /\ last.result.samples_processed = AUDX_DEFAULT_FRAME_SIZE

\* C18: processNative, getStatsNative and resetStatsNative called with the
\* null handle (or with a handle whose denoiser pointer is null) return at
\* their first check: processNative and getStatsNative return null, and none
\* of the three calls the engine or a converter, acquires an array,
\* allocates a scratch buffer or writes a field of any session.
C18_InvalidHandleRejected ==
    [][(/\ last'.op \in {"process", "getStats", "resetStats"}
        /\ InvalidHandle(last'.h))
       => /\ last'.trace = << >>
          /\ last'.op \in {"process", "getStats"} =>
                (~last'.ok /\ ReturnValue(last') = NULL)
          /\ den' = den /\ carried' = carried
          /\ handleRec' = handleRec /\ ctxRec' = ctxRec
          /\ allocs' = allocs /\ frees' = frees /\ scratch' = scratch]_vars

\* C18 witness: resetStatsNative was called with the null handle while a
\* session with recorded frames was live.
C18_Witness ==
    /\ last.op = "resetStats" /\ last.h = NULL
    /\ \E h \in LiveHandles :
          den[handleRec[h].denoiser].frames_processed > 0

\* C19 (as claimed): whenever processNative returns null it has not
\* committed the caller's output array: the array was released with
\* JNI_ABORT or never acquired; and the input array is released with
\* JNI_ABORT on every path.
C19_NullMeansNotCommitted ==
    (last.op = "process") =>
        /\ ~last.ok =>
              ~Has(last.trace, "ReleaseShortArrayElements(0)", "output", TRUE)
        /\ ~Has(last.trace, "ReleaseShortArrayElements(0)", "input", TRUE)

\* C20 (as claimed): on every exit path of createNative the model-path
\* string obtained with GetStringUTFChars has been released with
\* ReleaseStringUTFChars exactly once.
C20_ModelPathReleased ==
    (last.op = "create") =>
        Cardinality(Calls(last.trace, "ReleaseStringUTFChars", "modelPath"))
        = Cardinality(Calls(last.trace, "GetStringUTFChars", "modelPath"))

====
